---- MODULE Spec2Model ----
(***************************************************************************)
(* State-machine model of public/scripts/app.js, the three-point dashboard.*)
(*                                                                         *)
(* The script file holds two immediately-invoked closures.  The first      *)
(* (lines 2-1094, here "I1") fetches seven datasets, renders six charts,   *)
(* keeps the controllers registry and wires the story steps.  The second   *)
(* (lines 1097-1638, here "I2") fetches three datasets and renders the     *)
(* league trend, scoring mix and scatter charts into the same containers.  *)
(* Both register a DOMContentLoaded listener, so both boot on every page   *)
(* load; the model keeps one copy of every closure variable per instance.  *)
(*                                                                         *)
(* Numbers: rates and percentages are integers in per-mille or percent;    *)
(* d3.format(".1f") output is the integer count of tenths; radii are in    *)
(* thousandths of a pixel.                                                 *)
(***************************************************************************)
EXTENDS Integers, Sequences, FiniteSets, TLC

VARIABLES
    dom,            \* ids of the anchor elements present in the page
    leagueTrends,   \* parsed data/league_trends.json (array of SeasonMetric)
    teamScatter,    \* parsed data/team_scatter.json (array of TeamSeasonStat)
    scoringMix,     \* parsed data/scoring_mix.json (array of ScoringMixRecord)
    heatmapData,    \* parsed data/three_heatmap.json (array of HeatmapCell)
    plotWidth,      \* measured inner width of the trend/mix plot area
    pc,             \* per instance: position of init()
    fetchSt,        \* per instance and url: state of the fetch promise
    result,         \* per instance and chart: what the renderer call did
    controllers,    \* the controllers registry of I1 (line 15)
    attached,       \* per chart: instance whose drawing is in the container
    avgGrowth,      \* text of #avgGrowth
    wired,          \* story steps have their observer and click listener
    active,         \* per story step: carries the class "active"
    uncaught,       \* the last event handler ended with an uncaught exception
    lastEvent,      \* the last handler that ran (history, for the properties)
    activeMetric,   \* per instance: activeMetric of renderLeagueTrends
    legendOwner,    \* instance whose click handler the legend buttons carry
    legendActive,   \* metric keys whose legend button carries the class "active"
    focus,          \* per instance: season under the league crosshair, 0 = none
    mixFocus,       \* per instance: season under the scoring-mix focus line
    tooltip,        \* the shared .tooltip element: class "show" and content
    slider,         \* #seasonSlider: min, max, value
    seasonLabel,    \* text of #seasonLabel
    sliderListeners,\* instances whose input/click listeners sit on the slider
    layer,          \* per instance: the circles of scatterLayer
    teams,          \* y-domain of the heatmap (team row order)
    page,           \* the window and document around the charts (PageOf)
    momentumSpiral, \* parsed data/momentum_spiral.json (array of records)
    heat,           \* the heatmap's cells and its last highlight call
    spiral          \* the spiral's dots, focused dot and label

vars == <<dom, leagueTrends, scoringMix, teamScatter, heatmapData, plotWidth, pc, fetchSt,
          result, controllers, attached, avgGrowth, wired, active, uncaught,
          lastEvent, activeMetric, legendOwner, legendActive, focus, mixFocus,
          tooltip,
          slider, seasonLabel, sliderListeners, layer, teams, page,
          momentumSpiral, heat, spiral>>

----------------------------------------------------------------------------
(* Generic helpers                                                         *)

Range(s) == {s[i] : i \in DOMAIN s}

Abs(n) == IF n < 0 THEN -n ELSE n

\* Array.prototype.sort with a comparator that orders by the number key[e]:
\* a stable insertion sort (ECMAScript 2019 requires sort to be stable).
RECURSIVE InsertByKey(_, _, _)
InsertByKey(sorted, e, key) ==
    IF sorted = <<>> THEN <<e>>
    ELSE IF key[sorted[Len(sorted)]] <= key[e]
         THEN Append(sorted, e)
         ELSE Append(InsertByKey(SubSeq(sorted, 1, Len(sorted) - 1), e, key),
                     sorted[Len(sorted)])

RECURSIVE SortByKeyFrom(_, _, _, _)
SortByKeyFrom(s, i, acc, key) ==
    IF i > Len(s) THEN acc
    ELSE SortByKeyFrom(s, i + 1, InsertByKey(acc, s[i], key), key)

StableSortByKey(s, key) == SortByKeyFrom(s, 1, <<>>, key)

\* All orderings of a finite sequence (the permutations of its indices).
Perms(s) ==
    LET n == Len(s)
        bij == {f \in [1..n -> 1..n] : \A i, j \in 1..n : f[i] = f[j] => i = j}
    IN {[i \in 1..n |-> s[f[i]]] : f \in bij}

\* All sequences over S of length lo..hi.
SeqsOf(S, lo, hi) == UNION {[1..n -> S] : n \in lo..hi}

----------------------------------------------------------------------------
(* Formatter utilities                                                     *)

\* d3.format(".1f") of the rational n/d (d > 0): Number.toFixed(1), the count
\* of tenths, rounding half away from zero.
numberFmt(n, d) ==
    LET q == (20 * Abs(n) + d) \div (2 * d)
    IN IF n < 0 THEN -q ELSE q

----------------------------------------------------------------------------
(* updateHeroMetrics                                                       *)

BlankText == [kind |-> "blank", plus |-> FALSE, tenths |-> 0]

\* Mutation: the sort of the copy is left out.
SortBySeasonOmitted(data) == data

\* data.slice().sort((a, b) => a.season - b.season)
SortBySeason(data) ==
    StableSortByKey(data, [d \in Range(data) |-> d.season])

\* The text updateHeroMetrics computes for a non-empty array: growth in
\* tenths with its "+" prefix; a zero first rate gives NaN or Infinity.
HeroText(data) ==
    LET sorted == SortBySeason(data)
        first == sorted[1]
        last == sorted[Len(sorted)]
        diff == last.avgThreeRate - first.avgThreeRate
    IN IF first.avgThreeRate = 0
       THEN IF diff = 0
            THEN [kind |-> "NaN", plus |-> FALSE, tenths |-> 0]
            ELSE [kind |-> "Infinity", plus |-> diff > 0, tenths |-> 0]
       ELSE [kind |-> "num",
             plus |-> diff * first.avgThreeRate >= 0,
             tenths |-> numberFmt(100 * diff, first.avgThreeRate)]

\* The new text of #avgGrowth (old text: cur) in a page with anchors d.
updateHeroMetrics(data, d, cur) ==
    IF data = <<>> THEN cur
    ELSE IF "avgGrowth" \in d THEN HeroText(data) ELSE cur

----------------------------------------------------------------------------
(* The page and the datasets                                               *)

Insts == {"I1", "I2"}

\* The charts in the order init() renders them.
ChartOrder == <<"league", "scoring", "scatter", "heatmap", "map", "spiral">>
Charts == Range(ChartOrder)

\* The renderers each init() calls: lines 38-43 and lines 1119-1121.
ChartsOf(i) == IF i = "I1" THEN Charts ELSE {"league", "scoring", "scatter"}

\* The files each init() fetches: lines 28-34 and lines 1113-1115.
UrlsOf(i) ==
    IF i = "I1"
    THEN {"league_trends", "scoring_mix", "team_scatter", "three_heatmap",
          "team_map", "momentum_spiral", "us_states_topo"}
    ELSE {"league_trends", "scoring_mix", "team_scatter"}

\* d3.select("#...") of each renderer.
ContainerOf(c) ==
    CASE c = "league" -> "leagueTrendChart"
      [] c = "scoring" -> "scoringMixChart"
      [] c = "scatter" -> "teamScatter"
      [] c = "heatmap" -> "heatmapChart"
      [] c = "map" -> "teamMap"
      [] OTHER -> "momentumSpiral"

\* document.getElementById of renderTeamScatter.
SliderAnchors == {"seasonSlider", "seasonLabel", "teamInsight"}

\* heatLegendHost is the element "#three-heatmap .story-viz" (line 795).
Anchors ==
    {ContainerOf(c) : c \in Charts} \cup SliderAnchors
        \cup {"trendLegend", "avgGrowth", "heatLegendHost"}

\* The pages the model boots in: the full page and every page lacking one
\* anchor element.
DomVariants == {Anchors} \cup {Anchors \ {a} : a \in Anchors}

\* The three metrics of metricConfig.
MetricKeys == {"avgThreeAttempts", "avgPoints", "avgThreeRate"}

\* metricConfig in its order, which is the order of the legend buttons.
MetricOrder == <<"avgThreeAttempts", "avgPoints", "avgThreeRate">>

\* One .story-step element: group is its parent element and story the
\* parent's data-story; season 0 and "" stand for an absent data attribute;
\* marked is the class "active" in the markup; section names the part of
\* the markup the step is written in ("": in every page), so that a step is
\* in the page only when the page has that part.
Step(group, story, season, metric, team, conference, marked, section) ==
    [group |-> group, story |-> story, season |-> season, metric |-> metric,
     team |-> team, conference |-> conference, marked |-> marked,
     section |-> section]

\* The story markup, the steps of each container in document order.  The
\* container gInner, without data-story, is a child element of the container
\* gScatter.  The last two steps are further steps of gScatter and gLeague,
\* in the part "storyOdd": a season beyond the data and a metric that is no
\* key of metricConfig.
Steps ==
    << Step("gLeague", "league", 2019, "avgPoints", "", "", FALSE, ""),
       Step("gLeague", "league", 0, "", "", "", FALSE, ""),
       Step("gScatter", "scatter", 2019, "", "", "", FALSE, ""),
       Step("gScatter", "scatter", 2021, "", "", "", TRUE, ""),
       Step("gInner", "", 0, "", "", "", FALSE, "storyExtras"),
       Step("gInner", "", 0, "", "", "", TRUE, "storyExtras"),
       Step("gHeat", "heatmap", 2020, "", "BOS", "", FALSE, "storyExtras"),
       Step("gMap", "map", 0, "", "", "East", FALSE, "storyExtras"),
       Step("gSpiral", "spiral", 2019, "", "", "", FALSE, "storyExtras"),
       Step("gMix", "scoring", 2019, "", "", "", FALSE, "storyExtras"),
       Step("gBogus", "bogus", 2019, "avgPoints", "", "", FALSE,
            "storyExtras"),
       Step("gScatter", "scatter", 2030, "", "", "", FALSE, "storyOdd"),
       Step("gLeague", "league", 0, "pace", "", "", FALSE, "storyOdd") >>

StepIds == DOMAIN Steps

\* document.querySelectorAll(".story-step") in a page with elements d.
StepsIn(d) ==
    {k \in StepIds : Steps[k].section = "" \/ Steps[k].section \in d}

\* Element g lies inside element anc (or is anc).
Within(g, anc) == g = anc \/ (g = "gInner" /\ anc = "gScatter")

\* SeasonMetric records of the dashboard's league file, not in season order.
LeagueData ==
    << [season |-> 2019, avgThreeAttempts |-> 320, avgPoints |-> 1112,
        avgThreeRate |-> 360],
       [season |-> 2018, avgThreeAttempts |-> 290, avgPoints |-> 1063,
        avgThreeRate |-> 300],
       [season |-> 2020, avgThreeAttempts |-> 341, avgPoints |-> 1118,
        avgThreeRate |-> 384] >>

MixData ==
    << [season |-> 2018, threePct |-> 280],
       [season |-> 2019, threePct |-> 310],
       [season |-> 2020, threePct |-> 330] >>

\* TeamSeasonStat records: hasWin = FALSE is a record without winPct; winPct
\* is in percent, avgThreeAttempts in tenths, threePct in per-mille.  No
\* team played in 2020, a season the slider can still be set to.
ScatterData ==
    << [season |-> 2019, teamId |-> 1, avgThreeAttempts |-> 300,
        threePct |-> 350, hasWin |-> TRUE, winPct |-> 45],
       [season |-> 2019, teamId |-> 2, avgThreeAttempts |-> 280,
        threePct |-> 340, hasWin |-> FALSE, winPct |-> 0],
       [season |-> 2021, teamId |-> 2, avgThreeAttempts |-> 310,
        threePct |-> 360, hasWin |-> TRUE, winPct |-> 80],
       [season |-> 2021, teamId |-> 3, avgThreeAttempts |-> 330,
        threePct |-> 370, hasWin |-> TRUE, winPct |-> 0] >>

HeatData ==
    << [season |-> 2019, abbr |-> "BOS", threeRate |-> 30],
       [season |-> 2020, abbr |-> "BOS", threeRate |-> 40],
       [season |-> 2020, abbr |-> "ATL", threeRate |-> 40],
       [season |-> 2019, abbr |-> "CHI", threeRate |-> 35] >>

\* Records of data/momentum_spiral.json, not in season order: momentum is
\* in thousandths.
SpiralData ==
    << [season |-> 2020, momentum |-> 1040],
       [season |-> 2018, momentum |-> 980],
       [season |-> 2019, momentum |-> 1010] >>

\* The heatmap before it is drawn: cells, one per datum, each with its
\* opacity attribute op (percent) and the target to of its running
\* transition (-1 when none runs); hl, the arguments of the last highlight
\* call (history), called = FALSE before the first;
\* over: the cell the pointer is over (0: none).
NoHeat ==
    [cells |-> <<>>, hl |-> [called |-> FALSE, team |-> "", season |-> 0],
     over |-> 0]

\* The spiral before it is drawn: dots, one per record in season order,
\* each with the season of its record, its angle (in angle steps) and its
\* radius (thousandths of a pixel);
\* focus, the position of the dot focusSeason enlarged (0: none); label,
\* the season in the text of .spiral-label (0: empty).
NoSpiral == [dots |-> <<>>, focus |-> 0, label |-> 0]

\* The window and the document: d3 and topojson are the globals window.d3
\* and topojson; topo is what data/us_states_topo.json parses to
\* ("topology", "noObjects": no objects member, "noStates": objects without
\* states); loaded: DOMContentLoaded has fired; tooltips: the number of
\* .tooltip elements in body; listeners: the instances whose init is
\* registered for DOMContentLoaded; errors: the instances that logged
\* "D3.js is required for this dashboard."; heatLegends: the number of
\* .heat-legend elements; projection: the projection of the team map.
\* markupTips: the number of .tooltip elements the markup came with.
\* tipOf: per instance, the .tooltip element its constant tooltip refers to,
\* as the element's position among the .tooltip elements of body (0 before
\* the closure has run); pointer: the chart the pointer is over.
PageOf(d3, tj, topo, tips, listeners, errors) ==
    [d3 |-> d3, topojson |-> tj, topo |-> topo, loaded |-> FALSE,
     markupTips |-> tips, tooltips |-> tips, listeners |-> listeners,
     errors |-> errors, heatLegends |-> 0, projection |-> "none",
     tipOf |-> [i \in Insts |-> 0], pointer |-> "none"]

----------------------------------------------------------------------------
(* The state as one record, so that a handler is a function on states      *)

World ==
    [dom |-> dom, leagueTrends |-> leagueTrends, scoringMix |-> scoringMix,
     teamScatter |-> teamScatter, heatmapData |-> heatmapData,
     plotWidth |-> plotWidth, pc |-> pc, fetchSt |-> fetchSt,
     result |-> result, controllers |-> controllers, attached |-> attached,
     avgGrowth |-> avgGrowth, wired |-> wired, active |-> active,
     uncaught |-> uncaught, lastEvent |-> lastEvent,
     activeMetric |-> activeMetric, legendOwner |-> legendOwner,
     legendActive |-> legendActive,
     focus |-> focus, mixFocus |-> mixFocus, tooltip |-> tooltip,
     slider |-> slider, seasonLabel |-> seasonLabel,
     sliderListeners |-> sliderListeners, layer |-> layer, teams |-> teams,
     page |-> page, momentumSpiral |-> momentumSpiral, heat |-> heat,
     spiral |-> spiral]

Commit(w) ==
    /\ dom' = w.dom
    /\ leagueTrends' = w.leagueTrends
    /\ scoringMix' = w.scoringMix
    /\ teamScatter' = w.teamScatter
    /\ heatmapData' = w.heatmapData
    /\ plotWidth' = w.plotWidth
    /\ pc' = w.pc
    /\ fetchSt' = w.fetchSt
    /\ result' = w.result
    /\ controllers' = w.controllers
    /\ attached' = w.attached
    /\ avgGrowth' = w.avgGrowth
    /\ wired' = w.wired
    /\ active' = w.active
    /\ uncaught' = w.uncaught
    /\ lastEvent' = w.lastEvent
    /\ activeMetric' = w.activeMetric
    /\ legendOwner' = w.legendOwner
    /\ legendActive' = w.legendActive
    /\ focus' = w.focus
    /\ mixFocus' = w.mixFocus
    /\ tooltip' = w.tooltip
    /\ slider' = w.slider
    /\ seasonLabel' = w.seasonLabel
    /\ sliderListeners' = w.sliderListeners
    /\ layer' = w.layer
    /\ teams' = w.teams
    /\ page' = w.page
    /\ momentumSpiral' = w.momentumSpiral
    /\ heat' = w.heat
    /\ spiral' = w.spiral

\* A TypeError or ReferenceError raised in the running handler.
Throw(w) == [w EXCEPT !.uncaught = TRUE]

\* lastEvent: the handler that ran last, its chart and argument; upd, the
\* updateSeason calls it made, as pairs <<instance, season>> (the last call
\* of each instance); before, the upd of the handler that ran before it;
\* calls, the control methods of the registry it called.
Event(op, chart, n) ==
    [op |-> op, chart |-> chart, n |-> n, upd |-> {},
     before |-> lastEvent.upd, calls |-> {}]

\* The tooltip element: tooltip.classed("show", ...) and tooltip.html(...).
TooltipContent(chart, by, season, rows, team, winText, winTenths) ==
    [show |-> TRUE, chart |-> chart, by |-> by, season |-> season,
     rows |-> rows, team |-> team, winText |-> winText,
     winTenths |-> winTenths]

HideTooltip(w) == [w EXCEPT !.tooltip.show = FALSE]

----------------------------------------------------------------------------
(* Nearest-point lookup: d3.bisector((d) => d.season).center               *)

\* x.invert(mx) of the linear scale with domain d3.extent(seasons) and range
\* [0, width], as the numerator of a fraction with denominator width.
InvertTimesWidth(data, mx, width) ==
    LET s0 == data[1].season
        sN == data[Len(data)].season
    IN s0 * width + mx * (sN - s0)

\* bisector.left(a, x, lo, hi) on 0-based indices: binary search for the
\* first index whose season is not below x = xw / width.
RECURSIVE BisectLeft(_, _, _, _, _)
BisectLeft(data, xw, width, lo, hi) ==
    IF lo < hi
    THEN LET mid == (lo + hi) \div 2
         IN IF data[mid + 1].season * width < xw
            THEN BisectLeft(data, xw, width, mid + 1, hi)
            ELSE BisectLeft(data, xw, width, lo, mid)
    ELSE lo

\* The lookup without the centring step: bisector.left alone.
BisectLeftOnly(data, xw, width) ==
    BisectLeft(data, xw, width, 0, Len(data) - 1)

\* bisector.center(a, x): i = left(a, x, 0, n - 1), then the left neighbour
\* when it is strictly closer, that is when a[i-1] - x > -(a[i] - x).
BisectCenter(data, xw, width) ==
    LET i == BisectLeft(data, xw, width, 0, Len(data) - 1)
    IN IF i > 0 /\ data[i].season * width - xw
                      > -(data[i + 1].season * width - xw)
       THEN i - 1
       ELSE i

\* const datum = data[bisect(data, x.invert(mx))] as a 1-based position in
\* the season-sorted data; 0 when data[index] is undefined.
PointerDatum(data, mx, width) ==
    IF data = <<>> THEN 0
    ELSE BisectCenter(data, InvertTimesWidth(data, mx, width), width) + 1

\* data.find((d) => d.season === season) alone, without the fallback to
\* the last record: 0 when no record has the season.
RECURSIVE FindSeasonNoFallback(_, _, _)
FindSeasonNoFallback(data, season, k) ==
    IF k > Len(data) THEN 0
    ELSE IF data[k].season = season THEN k
    ELSE FindSeasonNoFallback(data, season, k + 1)

\* data.find((d) => d.season === season) || data[data.length - 1], as a
\* 1-based position; 0 for an empty array (datum is undefined).
RECURSIVE FindSeason(_, _, _)
FindSeason(data, season, k) ==
    IF k > Len(data) THEN Len(data)
    ELSE IF data[k].season = season THEN k
    ELSE FindSeason(data, season, k + 1)

----------------------------------------------------------------------------
(* renderLeagueTrends                                                      *)

\* rows of showTooltip: metricData.filter(!activeMetric || activeMetric === key)
TooltipRows(metric) == {k \in MetricKeys : metric = "" \/ metric = k}

showTooltip(w, i, datum) ==
    [w EXCEPT !.tooltip =
        TooltipContent("league", i, datum.season,
                       TooltipRows(w.activeMetric[i]), 0, "", 0)]

\* pointermove on the plot rectangle of instance i at plot x-position mx.
pointerMove(w, i, mx) ==
    LET data == SortBySeason(w.leagueTrends)
        k == PointerDatum(data, mx, w.plotWidth)
    IN IF k = 0 THEN w
       ELSE showTooltip([w EXCEPT !.focus[i] = data[k].season], i, data[k])

pointerLeave(w, i) == HideTooltip([w EXCEPT !.focus[i] = 0])

\* updateMetricFilter of instance i: the class "active" of the legend
\* buttons (the buttons selection is empty without #trendLegend; both
\* instances join the same three button elements).
updateMetricFilter(w, i) ==
    IF "trendLegend" \in w.dom
    THEN [w EXCEPT !.legendActive = TooltipRows(w.activeMetric[i])]
    ELSE w

\* A click handler that sets the clicked metric and never clears it.
legendClickSetOnly(w, i, key) ==
    updateMetricFilter([w EXCEPT !.activeMetric[i] = key], i)

\* The legend buttons' click handler (lines 319-322 and 1316-1319).
legendClick(w, i, key) ==
    updateMetricFilter(
        [w EXCEPT !.activeMetric[i] =
                      IF w.activeMetric[i] = key THEN "" ELSE key], i)

setMetric(w, i, key) ==
    updateMetricFilter([w EXCEPT !.activeMetric[i] = key], i)

focusSeason(w, i, season) ==
    LET data == SortBySeason(w.leagueTrends)
        k == FindSeason(data, season, 1)
    IN IF k = 0 THEN Throw(w)
       ELSE showTooltip([w EXCEPT !.focus[i] = data[k].season], i, data[k])

\* A renderer that sorts the array it was given, not a copy of it.
renderLeagueTrendsSortingInput(w, i) ==
    IF ContainerOf("league") \notin w.dom
    THEN Throw([w EXCEPT !.result[i]["league"] = "threw"])
    ELSE updateMetricFilter(
             [w EXCEPT !.leagueTrends = SortBySeason(@),
                       !.result[i]["league"] = "rendered",
                       !.attached["league"] = i,
                       !.activeMetric[i] = "",
                       !.focus[i] = 0,
                       !.legendOwner =
                           IF "trendLegend" \in w.dom THEN i
                           ELSE w.legendOwner], i)

\* The renderer up to its return; "threw" when container.node() is null.
\* It works on rawData.slice().sort(...), a sorted copy (SortBySeason), and
\* leaves the array it was given as it is.
renderLeagueTrends(w, i) ==
    IF ContainerOf("league") \notin w.dom
    THEN Throw([w EXCEPT !.result[i]["league"] = "threw"])
    ELSE updateMetricFilter(
             [w EXCEPT !.result[i]["league"] = "rendered",
                       !.attached["league"] = i,
                       !.activeMetric[i] = "",
                       !.focus[i] = 0,
                       !.legendOwner =
                           IF "trendLegend" \in w.dom THEN i
                           ELSE w.legendOwner], i)

----------------------------------------------------------------------------
(* renderScoringMix                                                        *)

MixKeys == {"twoPct", "threePct", "ftPct"}

\* showSeason of I1; the pointermove handler of I2 sets the same tooltip and
\* has no focus line.
showSeason(w, i, datum) ==
    [w EXCEPT !.tooltip =
                  TooltipContent("scoring", i, datum.season, MixKeys, 0, "", 0),
              !.mixFocus[i] = IF i = "I1" THEN datum.season ELSE 0]

mixPointerMove(w, i, mx) ==
    LET data == SortBySeason(w.scoringMix)
        k == PointerDatum(data, mx, w.plotWidth)
    IN IF k = 0 THEN w ELSE showSeason(w, i, data[k])

mixPointerLeave(w, i) == HideTooltip([w EXCEPT !.mixFocus[i] = 0])

mixFocusSeason(w, i, season) ==
    LET data == SortBySeason(w.scoringMix)
        k == FindSeason(data, season, 1)
    IN IF k = 0 THEN Throw(w) ELSE showSeason(w, i, data[k])

renderScoringMix(w, i) ==
    IF ContainerOf("scoring") \notin w.dom
    THEN Throw([w EXCEPT !.result[i]["scoring"] = "threw"])
    ELSE [w EXCEPT !.result[i]["scoring"] = "rendered",
                   !.attached["scoring"] = i,
                   !.mixFocus[i] = 0]

----------------------------------------------------------------------------
(* renderTeamScatter                                                       *)

\* Integer square root by bisection (for n below 2^31).
RECURSIVE SqrtBetween(_, _, _)
SqrtBetween(n, lo, hi) ==
    IF lo >= hi THEN lo
    ELSE LET mid == (lo + hi + 1) \div 2
         IN IF mid * mid <= n THEN SqrtBetween(n, mid, hi)
            ELSE SqrtBetween(n, lo, mid - 1)

ISqrt(n) == SqrtBetween(n, 0, 46340)

\* r = d3.scaleSqrt().domain([0.2, 0.8]).range([4, 22]) in thousandths of a
\* pixel, for a win share given in percent: 4 + 18 * (sqrt(p / 20) - 1).
\* The scale does not clamp.
RadiusScale(p) == 4000 + 18 * (ISqrt(50000 * p) - 1000)

\* d.winPct ?? 0.5 (lines 615 and 624), in percent.
WinOrDefault(d) == IF d.hasWin THEN d.winPct ELSE 50

\* The tooltip's win text (line 643): d.winPct ? numberFmt(d.winPct * 100)
\* + "%" : "N/A" -- a truthiness test, so 0 counts as absent.
WinText(d) == IF d.hasWin /\ d.winPct # 0 THEN "value" ELSE "N/A"
WinTenths(d) == IF d.hasWin /\ d.winPct # 0 THEN numberFmt(d.winPct, 1) ELSE 0

\* rawData.filter((d) => d.avgThreeAttempts && d.threePct)
ScatterFilter(raw) ==
    SelectSeq(raw, LAMBDA d : d.avgThreeAttempts # 0 /\ d.threePct # 0)

\* seasons: the distinct seasons of the filtered data.
ScatterSeasons(raw) == {d.season : d \in Range(ScatterFilter(raw))}

SetMin(S) == CHOOSE m \in S : \A e \in S : m <= e
SetMax(S) == CHOOSE m \in S : \A e \in S : m >= e

\* seasonGroups.get(year) || []
SeasonData(raw, year) ==
    SelectSeq(ScatterFilter(raw), LAMBDA d : d.season = year)

\* A circle of scatterLayer: its bound datum, the targets of its running
\* transition (the scales are fixed per render, so the position target is
\* kept in data units) and whether it is in its exit transition.
Circle(d, exiting) ==
    [d |-> d, cx |-> d.avgThreeAttempts, cy |-> d.threePct,
     r |-> IF exiting THEN 0 ELSE RadiusScale(WinOrDefault(d)),
     exiting |-> exiting]

\* selection.data(seasonData, (d) => d.teamId) followed by join(enter,
\* update, exit), after d3-selection's bindKey: a node whose key repeats an
\* earlier node's goes to exit; each datum takes the node registered under
\* its key (once) or enters; unmatched nodes exit.  An update or exit starts
\* a new transition on the node, which pre-empts the one running on it.
\* Nodes keep their place and entered circles are appended.
FirstNodeOf(nodes, key) ==
    IF \E n \in DOMAIN nodes : nodes[n].d.teamId = key
    THEN SetMin({n \in DOMAIN nodes : nodes[n].d.teamId = key})
    ELSE 0

FirstDatumOf(data, key) ==
    SetMin({j \in DOMAIN data : data[j].teamId = key})

\* A join without key matching and without exit: every datum enters.
KeyedJoinAppendOnly(nodes, data) ==
    nodes \o [k \in DOMAIN data |-> Circle(data[k], FALSE)]

KeyedJoin(nodes, data) ==
    LET matchOf(n) ==
            IF FirstNodeOf(nodes, nodes[n].d.teamId) = n
               /\ \E j \in DOMAIN data : data[j].teamId = nodes[n].d.teamId
            THEN FirstDatumOf(data, nodes[n].d.teamId)
            ELSE 0
        kept == [n \in DOMAIN nodes |->
                    IF matchOf(n) # 0 THEN Circle(data[matchOf(n)], FALSE)
                    ELSE Circle(nodes[n].d, TRUE)]
        entering(j) ==
            FirstNodeOf(nodes, data[j].teamId) = 0
                \/ FirstDatumOf(data, data[j].teamId) # j
        entered == SelectSeq([j \in DOMAIN data |-> [j |-> j, d |-> data[j]]],
                             LAMBDA e : entering(e.j))
    IN kept \o [k \in DOMAIN entered |-> Circle(entered[k].d, FALSE)]

\* updateSeason(season) of instance i: the label, then the join.
updateSeason(w, i, season) ==
    [w EXCEPT !.seasonLabel = season,
              !.layer[i] = KeyedJoin(w.layer[i],
                                     SeasonData(w.teamScatter, season)),
              !.lastEvent.upd = {c \in @ : c[1] # i} \cup {<<i, season>>}]

\* A range input keeps its value within [min, max].
Clamp(v, lo, hi) == IF v < lo THEN lo ELSE IF v > hi THEN hi ELSE v

\* input event on #seasonSlider (lines 676 and 1620): the listeners of the
\* instances run in the order they were added, each calling its own
\* updateSeason(event.target.value).
RECURSIVE sliderInput(_, _, _)
sliderInput(w, k, season) ==
    IF k > Len(w.sliderListeners) THEN w
    ELSE sliderInput(updateSeason(w, w.sliderListeners[k], season),
                     k + 1, season)

\* click on a .slider-btn with data-dir = dir (lines 677-687 and 1621-1631):
\* every instance that rendered the scatter chart has added a listener to
\* the button; they run in the order they were added, each reading the
\* slider's value as the listener before it left it.
RECURSIVE sliderBtnClick(_, _, _)
sliderBtnClick(w, k, dir) ==
    IF k > Len(w.sliderListeners) THEN w
    ELSE LET next == Clamp(w.slider.value + dir, w.slider.min, w.slider.max)
         IN sliderBtnClick(
                updateSeason([w EXCEPT !.slider.value = next],
                             w.sliderListeners[k], next),
                k + 1, dir)

\* controllers.scatter.setSeason (lines 694-697); only I1 returns it.
setSeason(w, season) ==
    updateSeason(
        [w EXCEPT !.slider.value = Clamp(season, w.slider.min, w.slider.max)],
        "I1", season)

\* pointerenter on circle n of the layer of instance i.
circleEnter(w, i, n) ==
    LET d == w.layer[i][n].d
    IN [w EXCEPT !.tooltip =
           TooltipContent("scatter", i, d.season, {}, d.teamId,
                          WinText(d), WinTenths(d))]

renderTeamScatter(w, i) ==
    IF ContainerOf("scatter") \notin w.dom
    THEN Throw([w EXCEPT !.result[i]["scatter"] = "threw"])
    ELSE IF ~(SliderAnchors \subseteq w.dom)
    THEN [w EXCEPT !.result[i]["scatter"] = "skipped",
                   !.attached["scatter"] = i,
                   !.layer[i] = <<>>]
    ELSE LET seasons == ScatterSeasons(w.teamScatter)
             sl == IF seasons = {} THEN w.slider
                   ELSE [min |-> SetMin(seasons), max |-> SetMax(seasons),
                         value |-> SetMax(seasons)]
             w1 == [w EXCEPT !.result[i]["scatter"] = "rendered",
                             !.attached["scatter"] = i,
                             !.layer[i] = <<>>,
                             !.slider = sl,
                             !.seasonLabel = sl.value,
                             !.sliderListeners = Append(@, i)]
         IN updateSeason(w1, i, sl.value)

----------------------------------------------------------------------------
(* renderHeatmap, renderTeamMap, renderMomentumSpiral                      *)

\* Array.from(new Set(data.map(f))): distinct values in first-appearance
\* order.
RECURSIVE UniqueFrom(_, _, _)
UniqueFrom(s, k, acc) ==
    IF k > Len(s) THEN acc
    ELSE UniqueFrom(s, k + 1,
                    IF s[k] \in Range(acc) THEN acc ELSE Append(acc, s[k]))

\* The rate of the team's first record of any season.
FirstRate(data, abbr) ==
    SelectSeq(data, LAMBDA d : d.abbr = abbr)[1].threeRate

\* teamLatest.get(abbr)?.threeRate ?? 0: the rate of the first record of the
\* team in the latest season, 0 when it has none.
LatestRate(data, abbr) ==
    LET latest == SetMax({d.season : d \in Range(data)})
        rows == SelectSeq(data, LAMBDA d : d.season = latest /\ d.abbr = abbr)
    IN IF rows = <<>> THEN 0 ELSE rows[1].threeRate

\* teams (lines 718-724): distinct abbr sorted with d3.descending on the
\* latest rate; the sort is stable.
HeatmapTeams(data) ==
    LET abbrs == UniqueFrom([k \in DOMAIN data |-> data[k].abbr], 1, <<>>)
    IN StableSortByKey(abbrs,
                       [a \in Range(abbrs) |-> 0 - LatestRate(data, a)])

\* The opacity highlight gives the cell of datum d (lines 806-810), percent.
HeatTarget(d, team, season) ==
    IF (team = "" \/ d.abbr = team) /\ (season = 0 \/ d.season = season)
    THEN 100 ELSE 25

\* highlight({team, season}): a transition on every cell towards its target
\* opacity; it replaces the transition running on the cell.
highlight(w, team, season) ==
    [w EXCEPT !.heat.cells =
                  [k \in DOMAIN @ |->
                      [@[k] EXCEPT !.to = HeatTarget(w.heatmapData[k],
                                                     team, season)]],
              !.heat.hl = [called |-> TRUE, team |-> team, season |-> season]]

\* pointerenter and pointerleave on cell n (lines 777-792): the opacity
\* attribute is set at once; a running transition is left running.  The
\* tooltip names the cell by its position in the data.
cellEnter(w, n) ==
    [w EXCEPT !.heat.cells[n].op = 100,
              !.tooltip = TooltipContent("heatmap", "I1",
                                         w.heatmapData[n].season, {}, n,
                                         "", 0)]

cellLeave(w, n) == HideTooltip([w EXCEPT !.heat.cells[n].op = 92])

renderHeatmap(w, i) ==
    IF ContainerOf("heatmap") \notin w.dom
    THEN Throw([w EXCEPT !.result[i]["heatmap"] = "threw"])
    ELSE [w EXCEPT !.result[i]["heatmap"] = "rendered",
                   !.attached["heatmap"] = i,
                   !.teams = HeatmapTeams(w.heatmapData),
                   !.heat.cells = [k \in DOMAIN w.heatmapData |->
                                      [op |-> 92, to |-> -1]],
                   !.heat.over = 0,
                   !.page.heatLegends =
                       IF "heatLegendHost" \in w.dom THEN @ + 1 ELSE @]

\* renderTeamMap up to the projection (lines 817-838): container.node() is
\* null without #teamMap; the bare identifier topojson is a ReferenceError
\* when the library is not loaded; topojson.feature(statesTopo, undefined)
\* is a TypeError when objects has no states.
renderTeamMap(w, i) ==
    IF ContainerOf("map") \notin w.dom
           \/ ~w.page.topojson \/ w.page.topo = "noStates"
    THEN Throw([w EXCEPT !.result[i]["map"] = "threw"])
    ELSE [w EXCEPT !.result[i]["map"] = "rendered", !.attached["map"] = i,
                   !.page.projection =
                       IF w.page.topo = "topology" THEN "fitted"
                       ELSE "default"]

\* d3.extent(data, (d) => d.momentum) of a non-empty array.
MomentumExtent(data) ==
    [lo |-> SetMin({d.momentum : d \in Range(data)}),
     hi |-> SetMax({d.momentum : d \in Range(data)})]

\* radiusScale = d3.scaleLinear().domain(extent).range([40, 210]), in
\* thousandths of a pixel: a linear scale whose domain is a single value
\* maps it to the middle of its range.
radiusScale(data, m) ==
    LET e == MomentumExtent(data)
    IN IF e.hi = e.lo THEN (40000 + 210000) \div 2
       ELSE 40000 + ((210000 - 40000) * (m - e.lo)) \div (e.hi - e.lo)

\* The outward drift per index of the radial line (line 988), thousandths.
IndexDrift == 8000

\* The radius without the drift.
radialRadiusNoDrift(data, k) == radiusScale(data, data[k].momentum)

\* .radius((d, i) => radiusScale(d.momentum) + i * 8) for the record at
\* position k (index k - 1) of the sorted data.
radialRadius(data, k) ==
    radiusScale(data, data[k].momentum) + (k - 1) * IndexDrift

\* .angle((_, i) => i * angleStep), in units of angleStep = PI / 3.2.
radialAngle(k) == k - 1

\* focusSeason(season) of the spiral (lines 1060-1078): datum.momentum
\* throws a TypeError when the data is empty.
spiralFocusSeason(w, season) ==
    LET data == SortBySeason(w.momentumSpiral)
        k == FindSeason(data, season, 1)
    IN IF k = 0 THEN Throw(w)
       ELSE [w EXCEPT !.spiral.focus = k, !.spiral.label = data[k].season]

\* The renderer ends with focusSeason(data[0]?.season).
renderMomentumSpiral(w, i) ==
    IF ContainerOf("spiral") \notin w.dom
    THEN Throw([w EXCEPT !.result[i]["spiral"] = "threw"])
    ELSE LET data == SortBySeason(w.momentumSpiral)
             w1 == [w EXCEPT
                       !.attached["spiral"] = i,
                       !.spiral = [dots |-> [k \in DOMAIN data |->
                                      [season |-> data[k].season,
                                       angle |-> radialAngle(k),
                                       radius |-> radialRadius(data, k)]],
                                   focus |-> 0, label |-> 0]]
             w2 == spiralFocusSeason(w1, IF data = <<>> THEN 0
                                         ELSE data[1].season)
         IN [w2 EXCEPT !.result[i]["spiral"] =
                           IF w2.uncaught THEN "threw" ELSE "rendered"]

----------------------------------------------------------------------------
(* setupStorySteps                                                         *)

\* The arguments a control method is called with.
Args(season, metric, team, conference) ==
    [season |-> season, metric |-> metric, team |-> team,
     conference |-> conference]

\* controllers.<chart>?.method(args): skipped when the registry has no
\* entry, a TypeError when the entry is an object without the method.
Dispatch(w, chart, method, args, Call(_)) ==
    CASE w.controllers[chart] = "unset" -> w
      [] w.controllers[chart] = "empty" -> Throw(w)
      [] OTHER ->
           Call([w EXCEPT !.lastEvent.calls =
                    @ \cup {[chart |-> chart, method |-> method,
                             args |-> args]}])

\* activateStep without its switch: every step is dispatched as a league
\* step.
activateStepNoSwitch(w, k) ==
    Dispatch([w EXCEPT !.active =
                 [j \in StepIds |->
                     IF j \in StepsIn(w.dom)
                           /\ Within(Steps[j].group, Steps[k].group)
                     THEN j = k
                     ELSE w.active[j]]],
             "league", "setMetric", Args(0, Steps[k].metric, "", ""),
             LAMBDA v : setMetric(v, "I1", Steps[k].metric))

\* activateStep(step): the class toggle over the .story-step elements inside
\* the step's parent (parent.querySelectorAll, all descendants), then the
\* switch on the parent's data-story.
activateStep(w, k) ==
    LET step == Steps[k]
        w1 == [w EXCEPT !.active =
                  [j \in StepIds |->
                      IF j \in StepsIn(w.dom)
                            /\ Within(Steps[j].group, step.group)
                      THEN j = k
                      ELSE w.active[j]]]
        leagueMetric(v) == setMetric(v, "I1", step.metric)
        leagueFocus(v) == focusSeason(v, "I1", step.season)
        mixFocusCall(v) == mixFocusSeason(v, "I1", step.season)
        scatterCall(v) == setSeason(v, step.season)
        heatCall(v) == highlight(v, step.team, step.season)
        spiralCall(v) == spiralFocusSeason(v, step.season)
        noState(v) == v
    IN CASE step.story = "league" ->
              LET w2 == Dispatch(w1, "league", "setMetric",
                                 Args(0, step.metric, "", ""), leagueMetric)
              IN IF w2.uncaught \/ step.season = 0 THEN w2
                 ELSE Dispatch(w2, "league", "focusSeason",
                               Args(step.season, "", "", ""), leagueFocus)
         [] step.story = "scoring" ->
              IF step.season = 0 THEN w1
              ELSE Dispatch(w1, "scoring", "focusSeason",
                            Args(step.season, "", "", ""), mixFocusCall)
         [] step.story = "scatter" ->
              IF step.season = 0 THEN w1
              ELSE Dispatch(w1, "scatter", "setSeason",
                            Args(step.season, "", "", ""), scatterCall)
         [] step.story = "heatmap" ->
              Dispatch(w1, "heatmap", "highlight",
                       Args(step.season, "", step.team, ""), heatCall)
         [] step.story = "map" ->
              Dispatch(w1, "map", "focusConference",
                       Args(0, "", "", step.conference), noState)
         [] step.story = "spiral" ->
              IF step.season = 0 THEN w1
              ELSE Dispatch(w1, "spiral", "focusSeason",
                            Args(step.season, "", "", ""), spiralCall)
         [] OTHER -> w1

\* d3.group(steps, (s) => s.parentElement): the groups in document order.
StepGroups(d) ==
    LET present == SelectSeq([k \in StepIds |-> k],
                             LAMBDA k : k \in StepsIn(d))
    IN UniqueFrom([n \in DOMAIN present |-> Steps[present[n]].group], 1, <<>>)

\* groupSteps.find((s) => s.classList.contains("active")) || groupSteps[0]
DefaultStep(w, g) ==
    LET own == {k \in StepsIn(w.dom) : Steps[k].group = g}
        marked == {k \in own : w.active[k]}
    IN IF marked # {} THEN SetMin(marked) ELSE SetMin(own)

RECURSIVE InitGroups(_, _)
InitGroups(w, n) ==
    IF n > Len(StepGroups(w.dom)) \/ w.uncaught THEN w
    ELSE InitGroups(activateStep(w, DefaultStep(w, StepGroups(w.dom)[n])),
                    n + 1)

setupStorySteps(w) ==
    IF StepsIn(w.dom) = {} THEN w
    ELSE InitGroups([w EXCEPT !.wired = TRUE], 1)

----------------------------------------------------------------------------
(* init                                                                    *)

Render(w, i, c) ==
    CASE c = "league" -> renderLeagueTrends(w, i)
      [] c = "scoring" -> renderScoringMix(w, i)
      [] c = "scatter" -> renderTeamScatter(w, i)
      [] c = "heatmap" -> renderHeatmap(w, i)
      [] c = "map" -> renderTeamMap(w, i)
      [] OTHER -> renderMomentumSpiral(w, i)

\* controllers.<chart> = render...(data) of I1: the assignment happens only
\* when the renderer returns; I2 drops the return value.
Register(w, i, c) ==
    IF i = "I1" /\ ~w.uncaught
    THEN [w EXCEPT !.controllers[c] =
             IF w.result[i][c] = "skipped" THEN "empty" ELSE "iface"]
    ELSE w

RECURSIVE RenderAll(_, _, _)
RenderAll(w, i, n) ==
    IF n > Len(ChartOrder) \/ w.uncaught THEN w
    ELSE IF ChartOrder[n] \notin ChartsOf(i) THEN RenderAll(w, i, n + 1)
    ELSE RenderAll(Register(Render(w, i, ChartOrder[n]), i, ChartOrder[n]),
                   i, n + 1)

\* The body of init() after the await (lines 37-48 and 1118-1124): the
\* catch clause takes whatever was thrown and logs it.
initRender(w, i) ==
    LET w1 == [w EXCEPT !.avgGrowth =
                  updateHeroMetrics(w.leagueTrends, w.dom, w.avgGrowth),
                        !.uncaught = FALSE]
        w2 == RenderAll(w1, i, 1)
        w3 == IF i = "I1" /\ ~w2.uncaught THEN setupStorySteps(w2) ELSE w2
    IN [w3 EXCEPT !.pc[i] = IF w3.uncaught THEN "renderFailed" ELSE "booted",
                  !.uncaught = FALSE]

AllUrls == UrlsOf("I1") \cup UrlsOf("I2")

\* The state when the script has run and the document is still loading.
BaseWorld(d, lt, sm, ts, hd, pw) ==
    [dom |-> d, leagueTrends |-> lt, scoringMix |-> sm, teamScatter |-> ts,
     heatmapData |-> hd, plotWidth |-> pw,
     pc |-> [i \in Insts |-> "idle"],
     fetchSt |-> [i \in Insts |-> [u \in AllUrls |-> "none"]],
     result |-> [i \in Insts |-> [c \in Charts |-> "notCalled"]],
     controllers |-> [c \in Charts |-> "unset"],
     attached |-> [c \in Charts |-> "none"],
     avgGrowth |-> BlankText,
     wired |-> FALSE,
     active |-> [k \in StepIds |-> Steps[k].marked /\ k \in StepsIn(d)],
     uncaught |-> FALSE,
     lastEvent |-> [op |-> "load", chart |-> "", n |-> 0, upd |-> {},
                    before |-> {}, calls |-> {}],
     activeMetric |-> [i \in Insts |-> ""],
     legendOwner |-> "none",
     legendActive |-> {},
     focus |-> [i \in Insts |-> 0],
     mixFocus |-> [i \in Insts |-> 0],
     tooltip |-> [show |-> FALSE, chart |-> "", by |-> "", season |-> 0,
                  rows |-> {}, team |-> 0, winText |-> "", winTenths |-> 0],
     slider |-> [min |-> 0, max |-> 100, value |-> 50],
     seasonLabel |-> 0,
     sliderListeners |-> <<>>,
     layer |-> [i \in Insts |-> <<>>],
     teams |-> <<>>,
     page |-> [PageOf(TRUE, TRUE, "topology", 0, Insts, {})
                  EXCEPT !.tooltips = 1,
                         !.tipOf = [i \in Insts |-> 1]],
     momentumSpiral |-> SpiralData,
     heat |-> NoHeat,
     spiral |-> NoSpiral]

\* The inner width of the plot area, in pointer positions.
PlotW == 8

\* A closure that appends a .tooltip element of its own in every page.
appendTooltip(w, i) ==
    [w EXCEPT !.page.tooltips = @ + 1,
              !.page.tipOf[i] = w.page.tooltips + 1]

\* const tooltip (lines 8-11 and 1103-1106): the first .tooltip element of
\* body, appended when body has none.
selectTooltip(w, i) ==
    IF w.page.tooltips = 0
    THEN [w EXCEPT !.page.tooltips = 1, !.page.tipOf[i] = 1]
    ELSE [w EXCEPT !.page.tipOf[i] = 1]

\* The closure without its guard on window.d3.
runScriptUnguarded(w, i) ==
    [selectTooltip(w, i) EXCEPT !.page.listeners = @ \cup {i},
                                !.pc[i] = "idle"]

\* The closure of instance i runs (lines 2-15 and 1093, lines 1097-1108 and
\* 1638): without window.d3 it logs the error and returns; otherwise it
\* takes or creates the .tooltip element and registers init.
runScript(w, i) ==
    IF ~w.page.d3
    THEN [w EXCEPT !.page.errors = @ \cup {i}, !.pc[i] = "noD3"]
    ELSE [selectTooltip(w, i) EXCEPT !.page.listeners = @ \cup {i},
                                     !.pc[i] = "idle"]

\* The state when both closures have run in a page with the given globals,
\* topology file and markup.
LoadedWorld(d, d3, tj, topo, tips) ==
    runScript(
        runScript(
            [BaseWorld(d, LeagueData, MixData, ScatterData, HeatData, PlotW)
                EXCEPT !.page = PageOf(d3, tj, topo, tips, {}, {}),
                       !.pc = [i \in Insts |-> "unrun"]],
            "I1"),
        "I2")

InitFrom(w) ==
    /\ dom = w.dom
    /\ leagueTrends = w.leagueTrends
    /\ scoringMix = w.scoringMix
    /\ teamScatter = w.teamScatter
    /\ heatmapData = w.heatmapData
    /\ plotWidth = w.plotWidth
    /\ pc = w.pc
    /\ fetchSt = w.fetchSt
    /\ result = w.result
    /\ controllers = w.controllers
    /\ attached = w.attached
    /\ avgGrowth = w.avgGrowth
    /\ wired = w.wired
    /\ active = w.active
    /\ uncaught = w.uncaught
    /\ lastEvent = w.lastEvent
    /\ activeMetric = w.activeMetric
    /\ legendOwner = w.legendOwner
    /\ legendActive = w.legendActive
    /\ focus = w.focus
    /\ mixFocus = w.mixFocus
    /\ tooltip = w.tooltip
    /\ slider = w.slider
    /\ seasonLabel = w.seasonLabel
    /\ sliderListeners = w.sliderListeners
    /\ layer = w.layer
    /\ teams = w.teams
    /\ page = w.page
    /\ momentumSpiral = w.momentumSpiral
    /\ heat = w.heat
    /\ spiral = w.spiral

Init ==
    \E d \in DomVariants :
        InitFrom(BaseWorld(d, LeagueData, MixData, ScatterData, HeatData,
                           PlotW))

\* DOMContentLoaded: both listeners run, each calling its init() up to the
\* await, which starts the fetches.
DOMContentLoaded ==
    /\ ~page.loaded
    /\ Commit([World EXCEPT
           !.page.loaded = TRUE,
           !.pc = [i \in Insts |->
                      IF i \in page.listeners THEN "waiting" ELSE @[i]],
           !.fetchSt = [i \in Insts |-> [u \in AllUrls |->
                           IF i \in page.listeners /\ u \in UrlsOf(i)
                           THEN "pending" ELSE "none"]],
           !.lastEvent = Event("DOMContentLoaded", "", 0)])

\* One fetch(...).then((res) => res.json()) of instance i fulfils; when it
\* is the last one, Promise.all fulfils and init() continues.
FetchOk(i, u) ==
    /\ pc[i] = "waiting"
    /\ fetchSt[i][u] = "pending"
    /\ LET w == [World EXCEPT !.fetchSt[i][u] = "ok",
                              !.lastEvent = Event("fetchOk", i, 0)]
       IN IF \A v \in UrlsOf(i) : w.fetchSt[i][v] = "ok"
          THEN Commit(initRender(w, i))
          ELSE Commit(w)

\* One fetch or parse of instance i rejects: Promise.all rejects and the
\* catch clause of init() logs the error.  The instance's other fetches run
\* on, but nothing reads their results, so they are left as they are.
FetchFail(i, u) ==
    /\ pc[i] = "waiting"
    /\ fetchSt[i][u] = "pending"
    /\ Commit([World EXCEPT !.fetchSt[i][u] = "failed",
                            !.pc[i] = "fetchFailed",
                            !.lastEvent = Event("fetchFail", i, 0)])

\* click on story step k (line 103).
StepClick(k) ==
    /\ wired
    /\ k \in StepsIn(dom)
    /\ Commit(activateStep([World EXCEPT !.uncaught = FALSE,
                                         !.lastEvent = Event("stepClick", "", k)],
                           k))

\* The IntersectionObserver callback with step k intersecting (lines 93-97).
StepIntersect(k) ==
    /\ wired
    /\ k \in StepsIn(dom)
    /\ Commit(activateStep([World EXCEPT !.uncaught = FALSE,
                                         !.lastEvent = Event("stepIntersect", "", k)],
                           k))

\* click on a legend button (the handler of the instance that joined the
\* buttons last); the event keeps the button's position in the legend.
LegendClick(key) ==
    /\ legendOwner \in Insts
    /\ Commit(legendClick(
           [World EXCEPT
               !.uncaught = FALSE,
               !.lastEvent =
                   Event("legendClick", "league",
                         CHOOSE n \in DOMAIN MetricOrder :
                             MetricOrder[n] = key)],
           legendOwner, key))

\* pointermove over the league plot (the rectangle of the attached drawing).
\* page.pointer follows the pointer: a move or enter puts it over the chart
\* (from outside every chart, the charts do not overlap), a leave takes it
\* off.
LeaguePointerMove(mx) ==
    /\ attached["league"] \in Insts
    /\ page.pointer \in {"none", "league"}
    /\ Commit(pointerMove([World EXCEPT
                              !.uncaught = FALSE,
                              !.page.pointer = "league",
                              !.lastEvent = Event("pointerMove", "league", mx)],
                          attached["league"], mx))

LeaguePointerLeave ==
    /\ attached["league"] \in Insts
    /\ page.pointer = "league"
    /\ Commit(pointerLeave([World EXCEPT
                               !.uncaught = FALSE,
                               !.page.pointer = "none",
                               !.lastEvent = Event("pointerLeave", "league", 0)],
                           attached["league"]))

MixPointerMove(mx) ==
    /\ attached["scoring"] \in Insts
    /\ page.pointer \in {"none", "scoring"}
    /\ Commit(mixPointerMove([World EXCEPT
                                 !.uncaught = FALSE,
                                 !.page.pointer = "scoring",
                                 !.lastEvent = Event("pointerMove", "scoring", mx)],
                             attached["scoring"], mx))

MixPointerLeave ==
    /\ attached["scoring"] \in Insts
    /\ page.pointer = "scoring"
    /\ Commit(mixPointerLeave([World EXCEPT
                                  !.uncaught = FALSE,
                                  !.page.pointer = "none",
                                  !.lastEvent = Event("pointerLeave", "scoring", 0)],
                              attached["scoring"]))

\* The user drags #seasonSlider to v: the input event.
SliderInput(v) ==
    /\ sliderListeners # <<>>
    /\ v \in slider.min .. slider.max
    /\ Commit(sliderInput([World EXCEPT
                              !.uncaught = FALSE,
                              !.slider.value = v,
                              !.lastEvent = Event("sliderInput", "scatter", v)],
                          1, v))

\* click on the season step button with data-dir = dir.
SliderBtnClick(dir) ==
    /\ sliderListeners # <<>>
    /\ Commit(sliderBtnClick([World EXCEPT
                                 !.uncaught = FALSE,
                                 !.lastEvent = Event("sliderBtn", "scatter",
                                                     dir)],
                             1, dir))

\* pointerenter / pointerleave on circle n of the attached scatter layer.
CircleEnter(n) ==
    /\ attached["scatter"] \in Insts
    /\ page.pointer = "none"
    /\ n \in DOMAIN layer[attached["scatter"]]
    /\ Commit(circleEnter([World EXCEPT
                              !.uncaught = FALSE,
                              !.page.pointer = "scatter",
                              !.lastEvent = Event("circleEnter", "scatter", n)],
                          attached["scatter"], n))

CircleLeave ==
    /\ page.pointer = "scatter"
    /\ Commit(HideTooltip([World EXCEPT
                              !.uncaught = FALSE,
                              !.page.pointer = "none",
                              !.lastEvent = Event("circleLeave", "scatter", 0)]))

\* The exit transition of circle n of instance i ends: transition.remove().
ExitEnd(i, n) ==
    /\ n \in DOMAIN layer[i]
    /\ layer[i][n].exiting
    /\ Commit([World EXCEPT
           !.layer[i] = [k \in 1 .. Len(@) - 1 |->
                            IF k < n THEN @[k] ELSE @[k + 1]],
           !.lastEvent = Event("exitEnd", "scatter", 0)])

\* pointerenter / pointerleave on cell n of the heatmap.
HeatCellEnter(n) ==
    /\ attached["heatmap"] \in Insts
    /\ n \in DOMAIN heat.cells
    /\ page.pointer = "none"
    /\ Commit(cellEnter([World EXCEPT
                            !.uncaught = FALSE,
                            !.page.pointer = "heatmap",
                            !.heat.over = n,
                            !.lastEvent = Event("cellEnter", "heatmap", n)],
                        n))

HeatCellLeave ==
    /\ page.pointer = "heatmap"
    /\ heat.over \in DOMAIN heat.cells
    /\ Commit(cellLeave([World EXCEPT
                            !.uncaught = FALSE,
                            !.page.pointer = "none",
                            !.heat.over = 0,
                            !.lastEvent = Event("cellLeave", "heatmap",
                                                heat.over)],
                        heat.over))

\* The transition highlight started ends on every cell (they share its
\* timing): each cell's opacity attribute gets its target value.
HighlightEnd ==
    /\ \E k \in DOMAIN heat.cells : heat.cells[k].to # -1
    /\ Commit([World EXCEPT
           !.heat.cells = [k \in DOMAIN @ |->
                              IF @[k].to = -1 THEN @[k]
                              ELSE [op |-> @[k].to, to |-> -1]],
           !.lastEvent = Event("highlightEnd", "heatmap", 0)])

\* Promise.all of instance i fulfils or rejects, seen as one step: the
\* order in which the single fetches settle is not kept.  The chart
\* specifications use these two in place of FetchOk and FetchFail.
JoinFulfils(i) ==
    /\ pc[i] = "waiting"
    /\ Commit(initRender(
           [World EXCEPT !.fetchSt[i] = [u \in AllUrls |->
                             IF u \in UrlsOf(i) THEN "ok" ELSE "none"],
                         !.lastEvent = Event("fetchOk", i, 0)], i))

JoinRejects(i) ==
    /\ pc[i] = "waiting"
    /\ \E u \in UrlsOf(i) :
          Commit([World EXCEPT !.fetchSt[i][u] = "failed",
                               !.pc[i] = "fetchFailed",
                               !.lastEvent = Event("fetchFail", i, 0)])

Join ==
    \/ DOMContentLoaded
    \/ \E i \in Insts : JoinFulfils(i)
    \/ \E i \in Insts : JoinRejects(i)

Boot ==
    \/ DOMContentLoaded
    \/ \E i \in Insts : \E u \in UrlsOf(i) : FetchOk(i, u)
    \/ \E i \in Insts : \E u \in UrlsOf(i) : FetchFail(i, u)

Next ==
    \/ Boot
    \/ \E k \in StepIds : StepClick(k)
    \/ \E k \in StepIds : StepIntersect(k)

Spec == Init /\ [][Next]_vars

FullPage == InitFrom(BaseWorld(Anchors, LeagueData, MixData, ScatterData,
                               HeatData, PlotW))

StepsOf(story) == {k \in StepIds : Steps[k].story = story}

\* The league trend chart with its legend, its pointer and its story steps.
NextLeague ==
    \/ Join
    \/ \E k \in StepsOf("league") : StepClick(k)
    \/ \E key \in MetricKeys : LegendClick(key)
    \/ \E mx \in 0 .. plotWidth : LeaguePointerMove(mx)
    \/ LeaguePointerLeave

SpecLeague == FullPage /\ [][NextLeague]_vars

\* The scatter chart with its slider, its transitions and its story steps.
NextScatter ==
    \/ Join
    \/ \E k \in StepsOf("scatter") : StepClick(k)
    \/ \E v \in slider.min .. slider.max : SliderInput(v)
    \/ \E i \in Insts : \E n \in 1 .. Len(teamScatter) : ExitEnd(i, n)

SpecScatter == FullPage /\ [][NextScatter]_vars

\* The scatter chart with its slider and the pointer over its circles.
NextScatterTip ==
    \/ Join
    \/ \E v \in slider.min .. slider.max : SliderInput(v)
    \/ \E n \in 1 .. Len(teamScatter) : CircleEnter(n)
    \/ CircleLeave

SpecScatterTip == FullPage /\ [][NextScatterTip]_vars

\* The page with the rich story markup, with and without #seasonSlider.
StoryPages ==
    {Anchors \cup {"storyExtras"},
     (Anchors \ {"seasonSlider"}) \cup {"storyExtras"}}

InitStory ==
    \E d \in StoryPages :
        InitFrom(BaseWorld(d, LeagueData, MixData, ScatterData, HeatData,
                           PlotW))

\* Boot and the story steps of the rich markup.
NextStory ==
    \/ Join
    \/ \E k \in StepIds : StepClick(k)
    \/ \E k \in StepIds : StepIntersect(k)

SpecStory == InitStory /\ [][NextStory]_vars

RichPage == InitFrom(BaseWorld(Anchors \cup {"storyExtras"}, LeagueData,
                               MixData, ScatterData, HeatData, PlotW))

\* The heatmap with its story step, its highlight transition and the
\* pointer over its cells.
NextHeatTip ==
    \/ Join
    \/ \E k \in StepsOf("heatmap") : StepClick(k)
    \/ \E n \in 1 .. Len(heatmapData) : HeatCellEnter(n)
    \/ HeatCellLeave
    \/ HighlightEnd

SpecHeatTip == RichPage /\ [][NextHeatTip]_vars

OddPage == InitFrom(BaseWorld(Anchors \cup {"storyOdd"}, LeagueData,
                              MixData, ScatterData, HeatData, PlotW))

\* The season controls of the scatter chart: the slider, its two step
\* buttons and the scatter story steps (setSeason).
NextSlider ==
    \/ Join
    \/ \E k \in StepsOf("scatter") : StepClick(k)
    \/ \E v \in slider.min .. slider.max : SliderInput(v)
    \/ \E dir \in {-1, 1} : SliderBtnClick(dir)

SpecSlider == OddPage /\ [][NextSlider]_vars

\* The metric filter of the league chart: the legend buttons, the league
\* story steps (setMetric, focusSeason) and the pointer over the plot.
NextMetric ==
    \/ Join
    \/ \E k \in StepsOf("league") : StepClick(k)
    \/ \E key \in MetricKeys : LegendClick(key)
    \/ \E mx \in 0 .. plotWidth : LeaguePointerMove(mx)

SpecMetric == OddPage /\ [][NextMetric]_vars

\* Pages with two, one or no .tooltip element in the markup, with and
\* without d3.
InitTooltip ==
    \E d3 \in BOOLEAN, tips \in {0, 1, 2} :
        InitFrom(LoadedWorld(Anchors \cup {"storyExtras"}, d3, TRUE,
                             "topology", tips))

\* Every handler that shows or hides the tooltip: the pointer over the
\* league, scoring, scatter and heatmap charts, and the league and scoring
\* story steps (focusSeason).
NextTooltip ==
    \/ Join
    \/ \E k \in StepsOf("league") \cup StepsOf("scoring") : StepClick(k)
    \/ \E mx \in 0 .. plotWidth : LeaguePointerMove(mx)
    \/ LeaguePointerLeave
    \/ \E mx \in 0 .. plotWidth : MixPointerMove(mx)
    \/ MixPointerLeave
    \/ \E n \in 1 .. Len(teamScatter) : CircleEnter(n)
    \/ CircleLeave
    \/ \E n \in 1 .. Len(heatmapData) : HeatCellEnter(n)
    \/ HeatCellLeave

SpecTooltip == InitTooltip /\ [][NextTooltip]_vars

\* Pages that differ in their globals, their topology file and their markup.
InitPage ==
    \E d3 \in BOOLEAN, tj \in BOOLEAN, tips \in {0, 1} :
      \E topo \in {"topology", "noObjects", "noStates"} :
        InitFrom(LoadedWorld(Anchors, d3, tj, topo, tips))

NextPage == Join

SpecPage == InitPage /\ [][NextPage]_vars

----------------------------------------------------------------------------
(* renderHeatmap over arbitrary HeatmapCell arrays                         *)

MaxCells == 3

HeatCells ==
    {[season |-> y, abbr |-> a, threeRate |-> r] :
        y \in {2019, 2020}, a \in {"ATL", "BOS", "CHI"}, r \in {0, 30, 40}}

InitHeat ==
    \E hd \in SeqsOf(HeatCells, 0, MaxCells) :
      \E d \in {Anchors, Anchors \ {ContainerOf("heatmap")}} :
        InitFrom(BaseWorld(d, LeagueData, MixData, ScatterData, hd, PlotW))

\* The call renderHeatmap(heatmapData) of init() (line 41).
HeatCall ==
    /\ lastEvent.op = "load"
    /\ Commit(renderHeatmap(
           [World EXCEPT !.lastEvent = Event("renderHeatmap", "heatmap", 0)],
           "I1"))

NextHeat == HeatCall

SpecHeat == InitHeat /\ [][NextHeat]_vars

----------------------------------------------------------------------------
(* renderMomentumSpiral over arbitrary momentum arrays                     *)

MaxDots == 3

SpiralRecords ==
    {[season |-> y, momentum |-> m] :
        y \in {2018, 2019, 2020}, m \in {980, 1010, 1040}}

InitSpiral ==
    \E ms \in SeqsOf(SpiralRecords, 0, MaxDots) :
        InitFrom([BaseWorld(Anchors, LeagueData, MixData, ScatterData,
                            HeatData, PlotW)
                     EXCEPT !.momentumSpiral = ms])

\* The call renderMomentumSpiral(momentumSpiral) of init() (line 43).
SpiralCall ==
    /\ lastEvent.op = "load"
    /\ Commit(renderMomentumSpiral(
           [World EXCEPT !.lastEvent = Event("renderMomentumSpiral",
                                             "spiral", 0)],
           "I1"))

NextSpiral == SpiralCall

SpecSpiral == InitSpiral /\ [][NextSpiral]_vars

----------------------------------------------------------------------------
(* The pointer lookups over arbitrary season lists                         *)

MaxPoints == 3

LookupSeasons == {2018, 2019, 2021, 2022}

\* Season lists in any order, one record per season.
SeasonLists ==
    {ss \in SeqsOf(LookupSeasons, 0, MaxPoints) :
        \A a, b \in DOMAIN ss : ss[a] = ss[b] => a = b}

InitLookup ==
    \E ss \in SeasonLists :
        InitFrom(BaseWorld(Anchors,
            [k \in DOMAIN ss |->
                [season |-> ss[k], avgThreeAttempts |-> 300,
                 avgPoints |-> 1000, avgThreeRate |-> 300]],
            [k \in DOMAIN ss |-> [season |-> ss[k], threePct |-> 300]],
            ScatterData, HeatData, PlotW))

NextLookup ==
    \/ DOMContentLoaded
    \/ \E i \in Insts : JoinFulfils(i)
    \/ \E mx \in 0 .. plotWidth : LeaguePointerMove(mx)
    \/ \E mx \in 0 .. plotWidth : MixPointerMove(mx)

SpecLookup == InitLookup /\ [][NextLookup]_vars

\* focusSeason of the league, scoring and spiral charts over the same
\* season lists: the three datasets hold one record per listed season, and
\* the story steps of the three charts name the season 2019.
InitFocus ==
    \E ss \in SeasonLists :
        InitFrom([BaseWorld(Anchors \cup {"storyExtras"},
                     [k \in DOMAIN ss |->
                         [season |-> ss[k], avgThreeAttempts |-> 300,
                          avgPoints |-> 1000, avgThreeRate |-> 300]],
                     [k \in DOMAIN ss |-> [season |-> ss[k], threePct |-> 300]],
                     ScatterData, HeatData, PlotW)
                    EXCEPT !.momentumSpiral =
                        [k \in DOMAIN ss |->
                            [season |-> ss[k], momentum |-> 1000]]])

NextFocus ==
    \/ Join
    \/ \E k \in StepsOf("league") \cup StepsOf("scoring")
                 \cup StepsOf("spiral") : StepClick(k)

SpecFocus == InitFocus /\ [][NextFocus]_vars

----------------------------------------------------------------------------
(* updateHeroMetrics over arbitrary SeasonMetric arrays                    *)

MaxSeasons == 3

HeroRecords ==
    {[season |-> y, avgThreeAttempts |-> 300, avgPoints |-> 1000,
      avgThreeRate |-> r] : y \in {2015, 2018, 2020}, r \in {0, 250, 300, 360}}

InitHero ==
    \E lt \in SeqsOf(HeroRecords, 0, MaxSeasons) :
      \E d \in {Anchors, Anchors \ {"avgGrowth"}} :
        InitFrom(BaseWorld(d, lt, MixData, ScatterData, HeatData, PlotW))

\* The call updateHeroMetrics(leagueTrends) of init() (lines 37 and 1118).
HeroCall ==
    /\ lastEvent.op = "load"
    /\ Commit([World EXCEPT
           !.avgGrowth = updateHeroMetrics(leagueTrends, dom, avgGrowth),
           !.lastEvent = Event("updateHeroMetrics", "", 0)])

NextHero == HeroCall

SpecHero == InitHero /\ [][NextHero]_vars

UniqueSeasons(data) ==
    \A a, b \in DOMAIN data : data[a].season = data[b].season => a = b

\* C1: for a non-empty array of SeasonMetric records (one per season), in
\* any order, #avgGrowth receives the growth between the records of the
\* smallest and the largest season, (last - first) / first * 100 to one
\* decimal, with "+" exactly when it is >= 0 (NaN or Infinity when the first
\* rate is 0), and every permutation of the array gives the same text.
HeroGrowthUsesFirstAndLastSeason ==
    (/\ lastEvent.op = "updateHeroMetrics"
     /\ leagueTrends # <<>>
     /\ "avgGrowth" \in dom
     /\ UniqueSeasons(leagueTrends))
    => LET recs == Range(leagueTrends)
           first == CHOOSE d \in recs : \A e \in recs : d.season <= e.season
           last == CHOOSE d \in recs : \A e \in recs : d.season >= e.season
           diff == last.avgThreeRate - first.avgThreeRate
       IN /\ IF first.avgThreeRate = 0
             THEN avgGrowth.kind \in {"NaN", "Infinity"}
             ELSE /\ avgGrowth.kind = "num"
                  /\ avgGrowth.plus = (diff >= 0)
                  /\ 2 * Abs(1000 * diff - avgGrowth.tenths * first.avgThreeRate)
                        <= first.avgThreeRate
          /\ \A p \in Perms(leagueTrends) : HeroText(p) = avgGrowth

\* C1 witness: seasons 2020 (0.360) before 2015 (0.300) in the input, and
\* the text written is +20.0.
HeroGrowthWitness ==
    /\ lastEvent.op = "updateHeroMetrics"
    /\ Len(leagueTrends) = 2
    /\ leagueTrends[1].season = 2020 /\ leagueTrends[1].avgThreeRate = 360
    /\ leagueTrends[2].season = 2015 /\ leagueTrends[2].avgThreeRate = 300
    /\ avgGrowth = [kind |-> "num", plus |-> TRUE, tenths |-> 200]

----------------------------------------------------------------------------
(* Boot and story-step properties                                          *)

\* The anchors a renderer reads with d3.select / getElementById and needs.
RequiredAnchors(c) ==
    {ContainerOf(c)} \cup (IF c = "scatter" THEN SliderAnchors ELSE {})

Settled(i) == pc[i] \in {"booted", "renderFailed", "fetchFailed"}

\* C2: boot is an all-or-nothing join: an instance calls no renderer before
\* all its fetches are fulfilled, and once any fetch or parse has failed no
\* chart is rendered, the registry is empty and no step is wired.
BootIsAllOrNothing ==
    /\ \A i \in Insts : \A c \in Charts :
          result[i][c] # "notCalled"
              => \A u \in UrlsOf(i) : fetchSt[i][u] = "ok"
    /\ (\E i \in Insts : \E u \in UrlsOf(i) : fetchSt[i][u] = "failed")
          => /\ \A i \in Insts : \A c \in Charts : result[i][c] = "notCalled"
             /\ \A c \in Charts : controllers[c] = "unset"
             /\ ~wired

\* C3: with the anchors of exactly one chart absent, the finished boot of I1
\* has rendered and registered every other chart and wired the steps.
MissingAnchorSkipsOnlyItsChart ==
    \A c \in Charts :
        (/\ pc["I1"] \in {"booted", "renderFailed"}
         /\ Anchors \ dom # {}
         /\ Anchors \ dom \subseteq RequiredAnchors(c))
        => /\ \A o \in Charts \ {c} :
                  result["I1"][o] = "rendered" /\ controllers[o] = "iface"
           /\ wired

\* C4: a renderer called without one of its required anchors returns the
\* empty control object and does not throw.
RendererWarnsAndReturnsEmpty ==
    \A i \in Insts : \A c \in ChartsOf(i) :
        (result[i][c] # "notCalled" /\ ~(RequiredAnchors(c) \subseteq dom))
            => result[i][c] = "skipped"

\* C5: activating a step whose chart registered an empty control object or
\* none never throws, on click, on intersection or during group
\* initialisation, and the step becomes the active step of its group.
StepOfEmptyControllerNeverThrows ==
    /\ \A k \in StepIds :
          (/\ lastEvent.op \in {"stepClick", "stepIntersect"}
           /\ lastEvent.n = k
           /\ controllers[Steps[k].story] \in {"unset", "empty"})
          => ~uncaught /\ active[k]
    /\ ~(wired /\ pc["I1"] = "renderFailed")

----------------------------------------------------------------------------
(* Scatter chart properties                                                *)

\* The circles of a layer that are not in their exit transition.
Bound(l) == SelectSeq(l, LAMBDA c : ~c.exiting)

TeamsOf(season) ==
    {d.teamId : d \in Range(SeasonData(teamScatter, season))}

\* C6: when a handler calls an instance's updateSeason with the season the
\* handler before it passed to it, the instance's bound circles stay as they
\* were (same data, same target position and radius), and they are one
\* circle per team of that season, with no team twice.
KeyedJoinIsIdempotent ==
    [][\A p \in lastEvent'.upd :
          p \in lastEvent.upd
              => LET b == Bound(layer'[p[1]])
                 IN /\ b = Bound(layer[p[1]])
                    /\ {b[k].d.teamId : k \in DOMAIN b} = TeamsOf(p[2])
                    /\ Len(b) = Cardinality(TeamsOf(p[2]))
                    /\ \A k \in DOMAIN b : b[k].d.season = p[2]]_vars

\* C6 witness: the slider input event for 2019 arrives twice in a row while
\* the circle of a team of 2021 is still in its exit transition.
KeyedJoinWitness ==
    /\ lastEvent.op = "sliderInput"
    /\ <<"I1", 2019>> \in lastEvent.upd \cap lastEvent.before
    /\ Len(Bound(layer["I1"])) = 2
    /\ \E n \in DOMAIN layer["I1"] : layer["I1"][n].exiting

\* Every bound circle's target radius, in thousandths of a pixel, is
\* 4 + 18 * (sqrt(p) - sqrt(0.2)) / (sqrt(0.8) - sqrt(0.2)) for p the
\* record's winPct, or 0.5 when the record has none (square roots taken to
\* three decimals of sqrt(5 * p)).
RadiusFollowsWinPct ==
    \A i \in Insts : \A n \in DOMAIN layer[i] :
        LET c == layer[i][n]
            p == IF c.d.hasWin THEN c.d.winPct ELSE 50
        IN ~c.exiting
              => \E q \in 0 .. 2300 :
                    /\ q * q <= 50000 * p /\ 50000 * p < (q + 1) * (q + 1)
                    /\ c.r = 4000 + 18 * (q - 1000)

\* C8: no scatter handler throws; a circle's radius is the sqrt scale of
\* the record's winPct, or of 0.5 when the record has none; the tooltip of a
\* circle shows the record's winPct, or "N/A" when the record has none.
WinPctRadiusAndTooltip ==
    /\ ~uncaught
    /\ RadiusFollowsWinPct
    /\ lastEvent.op = "circleEnter"
          => LET d == layer[attached["scatter"]][lastEvent.n].d
             IN IF d.hasWin
                THEN tooltip.winText = "value"
                         /\ tooltip.winTenths = 10 * d.winPct
                ELSE tooltip.winText = "N/A"

----------------------------------------------------------------------------
(* League trend properties                                                 *)

\* The last handler showed the league tooltip: a pointer move over the plot,
\* or a league story step with a season (focusSeason).
LeagueTooltipJustShown ==
    \/ lastEvent.op = "pointerMove" /\ lastEvent.chart = "league"
    \/ /\ lastEvent.op \in {"stepClick", "stepIntersect"}
       /\ Steps[lastEvent.n].story = "league"
       /\ Steps[lastEvent.n].season # 0
       /\ ~uncaught

\* C9: a tooltip shown by the league chart has exactly the rows of the
\* metrics the filter leaves active: the single row of metric k while the
\* filter set last (setMetric or legend click) is k, all three rows while no
\* filter is set.  The legend buttons' "active" class records that filter.
TooltipRowsFollowMetricFilter ==
    (LeagueTooltipJustShown /\ "trendLegend" \in dom)
        => tooltip.show /\ tooltip.chart = "league"
              /\ tooltip.rows = legendActive

----------------------------------------------------------------------------
(* Heatmap properties                                                      *)

UniqueCells(data) ==
    \A a, b \in DOMAIN data :
        (data[a].season = data[b].season /\ data[a].abbr = data[b].abbr)
            => a = b

\* The three-point rate of team abbr in the most recent season of the data,
\* 0 when the team has no record in that season.
RateInLatestSeason(data, abbr) ==
    LET latest == CHOOSE y \in {d.season : d \in Range(data)} :
                      \A d \in Range(data) : d.season <= y
        rec == {d \in Range(data) : d.season = latest /\ d.abbr = abbr}
    IN IF rec = {} THEN 0 ELSE (CHOOSE d \in rec : TRUE).threeRate

FirstAppearance(data, abbr) ==
    CHOOSE k \in DOMAIN data :
        data[k].abbr = abbr /\ \A j \in 1 .. k - 1 : data[j].abbr # abbr

\* C7: the heatmap's rows are the teams of the data, each once, in
\* descending order of their three-point rate in the most recent season (0
\* for a team without a record in it); teams of equal rate are in the order
\* of their first appearance in the data.
HeatmapRowsByLatestRate ==
    (/\ lastEvent.op = "renderHeatmap"
     /\ ContainerOf("heatmap") \in dom
     /\ UniqueCells(heatmapData))
    => /\ Range(teams) = {d.abbr : d \in Range(heatmapData)}
       /\ \A a, b \in DOMAIN teams :
             a < b
                => LET ra == RateInLatestSeason(heatmapData, teams[a])
                       rb == RateInLatestSeason(heatmapData, teams[b])
                   IN /\ teams[a] # teams[b]
                      /\ ra >= rb
                      /\ ra = rb
                            => FirstAppearance(heatmapData, teams[a])
                                  < FirstAppearance(heatmapData, teams[b])

\* C7 witness: CHI has rate 40 in 2019 and no record in 2020, BOS and ATL
\* tie at 30 in 2020: the rows are BOS, ATL, CHI.
HeatmapRowsWitness ==
    /\ lastEvent.op = "renderHeatmap"
    /\ heatmapData =
          << [season |-> 2019, abbr |-> "CHI", threeRate |-> 40],
             [season |-> 2020, abbr |-> "BOS", threeRate |-> 30],
             [season |-> 2020, abbr |-> "ATL", threeRate |-> 30] >>
    /\ teams = << "BOS", "ATL", "CHI" >>

----------------------------------------------------------------------------
(* Pointer lookup properties                                               *)

\* The data of the chart whose pointermove handler ran last.
LookupData ==
    IF lastEvent.chart = "league" THEN leagueTrends ELSE scoringMix

\* |season - x.invert(mx)| times the plot width, for the pointer position of
\* the last event.
PointerDistance(season) ==
    LET seasons == {d.season : d \in Range(LookupData)}
        lo == CHOOSE y \in seasons : \A z \in seasons : y <= z
        hi == CHOOSE y \in seasons : \A z \in seasons : y >= z
    IN Abs(season * plotWidth - (lo * plotWidth + lastEvent.n * (hi - lo)))

\* C10: on non-empty data a pointer move inside the plot shows the tooltip
\* of a season of the data at minimal distance from the inverted pointer
\* position; of two seasons at the same distance it is always the later
\* one, so that equal calls select equal seasons.
PointerLookupSelectsNearest ==
    (lastEvent.op = "pointerMove" /\ LookupData # <<>>)
    => LET seasons == {d.season : d \in Range(LookupData)}
       IN /\ tooltip.show /\ tooltip.chart = lastEvent.chart
          /\ tooltip.season \in seasons
          /\ \A s \in seasons :
                /\ PointerDistance(tooltip.season) <= PointerDistance(s)
                /\ PointerDistance(tooltip.season) = PointerDistance(s)
                      => s <= tooltip.season

\* C10 witness: the pointer is exactly midway between two seasons of the
\* data and the later one is shown.
PointerLookupWitness ==
    /\ lastEvent.op = "pointerMove"
    /\ Len(LookupData) = 3
    /\ \E s \in {d.season : d \in Range(LookupData)} :
          /\ s < tooltip.season
          /\ PointerDistance(s) = PointerDistance(tooltip.season)
    /\ tooltip.show /\ tooltip.chart = lastEvent.chart

----------------------------------------------------------------------------
(* Re-rendering                                                            *)

\* C11: where an instance is about to call its renderers, calling a
\* renderer twice gives the state that calling it once gives, and the
\* slider never carries more than one input listener.
RenderTwiceSameAsOnce ==
    /\ \A i \in Insts : \A c \in ChartsOf(i) :
          pc[i] = "waiting"
              => LET once == Render(World, i, c)
                     twice == Render(once, i, c)
                 IN ~once.uncaught => twice = once
    /\ Len(sliderListeners) <= 1

----------------------------------------------------------------------------
(* Story-step properties                                                   *)

\* The steps of group g in the page.
GroupSteps(g) == {k \in StepsIn(dom) : Steps[k].group = g}

PageGroups == {Steps[k].group : k \in StepsIn(dom)}

\* The last handler activated a step on a click or an intersection.
StepActivated == lastEvent.op \in {"stepClick", "stepIntersect"}

\* C12: when story setup has run (the first closure's init has just
\* continued after its fetches and wired the steps), every group has exactly
\* one active step: the first step marked active in the markup, or the
\* group's first step when none is marked.
GroupInitActivatesDefault ==
    (lastEvent.op = "fetchOk" /\ lastEvent.chart = "I1" /\ wired)
    => \A g \in PageGroups :
          LET marked == {k \in GroupSteps(g) : Steps[k].marked}
              def == IF marked # {} THEN SetMin(marked)
                     ELSE SetMin(GroupSteps(g))
          IN {k \in GroupSteps(g) : active[k]} = {def}

\* C13: a click or an intersection that activates a step leaves the active
\* class of every step of every other group as it was.
GroupsAreIndependent ==
    [][StepActivated'
          => \A j \in StepIds :
                Steps[j].group # Steps[lastEvent'.n].group
                    => active'[j] = active[j]]_vars

\* The control method calls the switch of activateStep makes for step st.
ExpectedCalls(st) ==
    LET call(method, a) == [chart |-> st.story, method |-> method, args |-> a]
        seasonOnly == Args(st.season, "", "", "")
    IN CASE st.story = "league" ->
              {call("setMetric", Args(0, st.metric, "", ""))}
                  \cup (IF st.season # 0
                        THEN {call("focusSeason", seasonOnly)} ELSE {})
         [] st.story = "scatter" ->
              IF st.season # 0 THEN {call("setSeason", seasonOnly)} ELSE {}
         [] st.story \in {"scoring", "spiral"} ->
              IF st.season # 0 THEN {call("focusSeason", seasonOnly)} ELSE {}
         [] st.story = "heatmap" ->
              {call("highlight", Args(st.season, "", st.team, ""))}
         [] st.story = "map" ->
              {call("focusConference", Args(0, "", "", st.conference))}
         [] OTHER -> {}

\* C14: an activated step calls control methods of the chart its story
\* names only, with the step's attributes; a step whose story names no
\* chart calls none.
DispatchOnlyToStoryChart ==
    StepActivated
    => LET st == Steps[lastEvent.n]
       IN /\ \A c \in lastEvent.calls : c.chart = st.story
          /\ st.story \notin Charts => lastEvent.calls = {}
          /\ (st.story \in Charts /\ ~uncaught)
                => IF controllers[st.story] = "iface"
                   THEN lastEvent.calls = ExpectedCalls(st)
                   ELSE lastEvent.calls = {}

\* C14 witness: the heatmap step was clicked and highlight was called with
\* its team and season; nothing else was called.
DispatchWitness ==
    /\ lastEvent.op = "stepClick"
    /\ Steps[lastEvent.n].story = "heatmap"
    /\ lastEvent.calls =
          {[chart |-> "heatmap", method |-> "highlight",
            args |-> Args(2020, "", "BOS", "")]}

\* C15: a clicked step is active after the click, and an active step stays
\* active in every step of the program that is not the activation of a
\* step of its own group.
ClickedStepStaysActive ==
    [][/\ lastEvent'.op = "stepClick" => active'[lastEvent'.n]
       /\ \A k \in StepIds :
             (/\ wired /\ active[k]
              /\ ~(StepActivated'
                     /\ Steps[lastEvent'.n].group = Steps[k].group))
             => active'[k]]_vars

\* C18: once story setup has completed, every group has exactly one active
\* step, whatever clicks and intersections follow.
OneActiveStepPerGroup ==
    (wired /\ pc["I1"] = "booted")
    => \A g \in PageGroups :
          Cardinality({k \in GroupSteps(g) : active[k]}) = 1

----------------------------------------------------------------------------
(* Page environment properties                                             *)

\* C16: when the only thing that went wrong is the basemap (its fetch
\* failed, or the file parsed to something without a usable states
\* object), the finished boot has rendered the team map with the default
\* centred projection.
BasemapFallback ==
    (/\ page.d3 /\ page.topojson
     /\ Settled("I1")
     /\ \A u \in UrlsOf("I1") \ {"us_states_topo"} :
           fetchSt["I1"][u] # "failed"
     /\ \/ fetchSt["I1"]["us_states_topo"] = "failed"
        \/ page.topo # "topology")
    => /\ result["I1"]["map"] = "rendered"
       /\ page.projection = "default"

\* C17: without window.d3 each closure has logged the error and nothing
\* else ever happens: no .tooltip element is added to the markup's, no
\* DOMContentLoaded listener is registered, no file is fetched, no renderer
\* is called and no step is wired.
NoD3NothingHappens ==
    ~page.d3
    => /\ page.errors = Insts
       /\ page.tooltips = page.markupTips
       /\ page.listeners = {}
       /\ \A i \in Insts : pc[i] = "noD3"
       /\ \A i \in Insts : \A u \in AllUrls : fetchSt[i][u] = "none"
       /\ \A i \in Insts : \A c \in Charts : result[i][c] = "notCalled"
       /\ \A c \in Charts : attached[c] = "none" /\ controllers[c] = "unset"
       /\ ~wired
       /\ page.heatLegends = 0 /\ page.projection = "none"

\* C17 witness: a page without d3 and without a .tooltip element, after
\* DOMContentLoaded has fired.
NoD3Witness ==
    /\ ~page.d3
    /\ page.loaded
    /\ page.markupTips = 0 /\ page.tooltips = 0
    /\ page.errors = Insts

----------------------------------------------------------------------------
(* Ownership of the containers                                             *)

\* The circles of layer l are one per team of the season, all bound, with
\* the records of that season.
OnePerTeam(l, season) ==
    /\ \A n \in DOMAIN l : ~l[n].exiting /\ l[n].d.season = season
    /\ {l[n].d.teamId : n \in DOMAIN l} = TeamsOf(season)
    /\ Len(l) = Cardinality(TeamsOf(season))

\* C19: when no circle of the scatter drawing in the page is in its exit
\* transition any more, the drawing holds exactly one circle per team of
\* the selected season (the season #seasonLabel shows).
ScatterLayerSettles ==
    LET i == attached["scatter"]
    IN (/\ i \in Insts
        /\ result[i]["scatter"] = "rendered"
        /\ \A n \in DOMAIN layer[i] : ~layer[i][n].exiting)
       => OnePerTeam(layer[i], seasonLabel)

\* The same for the drawing of the first closure while it is the one in the
\* page.
FirstClosureLayerSettles ==
    attached["scatter"] = "I1" => ScatterLayerSettles

\* C20: no container is populated by more than one closure, and every
\* control interface in the registry belongs to the drawing attached to its
\* chart's container.
ControllerActsOnAttachedDrawing ==
    /\ \A c \in Charts :
          Cardinality({i \in Insts : result[i][c] \in {"rendered", "skipped"}})
              <= 1
    /\ \A c \in Charts : controllers[c] = "iface" => attached[c] = "I1"

----------------------------------------------------------------------------
(* Heatmap highlight                                                       *)

\* C27: once highlight({team, season}) has been called and its transition
\* has ended, every cell that matches the given team and season has full
\* opacity and every other cell the dimmed opacity, whatever pointer enter
\* and leave events happened on the cells since.
HighlightPersists ==
    (/\ result["I1"]["heatmap"] = "rendered"
     /\ heat.hl.called
     /\ \A k \in DOMAIN heat.cells : heat.cells[k].to = -1)
        => \A k \in DOMAIN heat.cells :
              heat.cells[k].op =
                  HeatTarget(heatmapData[k], heat.hl.team, heat.hl.season)

\* The same while the pointer has not been on a cell since the transition
\* ended.
HighlightSettles ==
    (/\ result["I1"]["heatmap"] = "rendered"
     /\ heat.hl.called
     /\ lastEvent.op = "highlightEnd")
        => \A k \in DOMAIN heat.cells :
              heat.cells[k].op =
                  HeatTarget(heatmapData[k], heat.hl.team, heat.hl.season)

----------------------------------------------------------------------------
(* Momentum spiral                                                         *)

\* Every record has the same momentum value.
FlatMomentum(data) ==
    \A a, b \in DOMAIN data : data[a].momentum = data[b].momentum

\* C23: when every season of the spiral's data has the same momentum, the
\* dots stand in season order, and from each dot to the next the radius
\* grows by the fixed drift (so it strictly increases with the index) and
\* the angle advances by one angle step.
FlatSpiralDriftsOutward ==
    (lastEvent.op = "renderMomentumSpiral" /\ FlatMomentum(momentumSpiral))
        => /\ Len(spiral.dots) = Len(momentumSpiral)
           /\ \A k \in DOMAIN spiral.dots :
                 k > 1 =>
                    /\ spiral.dots[k - 1].season <= spiral.dots[k].season
                    /\ spiral.dots[k].radius
                           = spiral.dots[k - 1].radius + IndexDrift
                    /\ spiral.dots[k].radius > spiral.dots[k - 1].radius
                    /\ spiral.dots[k].angle = spiral.dots[k - 1].angle + 1

\* Three seasons given out of season order, all with the same momentum, drawn.
FlatSpiralWitness ==
    /\ lastEvent.op = "renderMomentumSpiral"
    /\ FlatMomentum(momentumSpiral)
    /\ Len(momentumSpiral) = 3
    /\ momentumSpiral[1].season > momentumSpiral[2].season
    /\ Len(spiral.dots) = 3
    /\ spiral.dots[3].radius = spiral.dots[1].radius + 2 * IndexDrift

----------------------------------------------------------------------------
(* The shared tooltip                                                      *)

\* The tooltip element before any chart wrote to it.
BlankTooltip ==
    [show |-> FALSE, chart |-> "", by |-> "", season |-> 0, rows |-> {},
     team |-> 0, winText |-> "", winTenths |-> 0]

\* The tooltip a pointer handler leaves when it runs on a blank tooltip.
ShownBy(e) ==
    LET w == [World EXCEPT !.tooltip = BlankTooltip]
    IN CASE e.op = "pointerMove" /\ e.chart = "league" ->
                pointerMove(w, attached["league"], e.n).tooltip
         [] e.op = "pointerMove" /\ e.chart = "scoring" ->
                mixPointerMove(w, attached["scoring"], e.n).tooltip
         [] e.op = "circleEnter" ->
                circleEnter(w, attached["scatter"], e.n).tooltip
         [] OTHER -> cellEnter(w, e.n).tooltip

\* One handler's effect on the tooltip.
TooltipStep ==
    LET e == lastEvent'
    IN /\ \A i \in Insts : page'.tipOf[i] \in {0, 1}
       /\ page'.tooltips =
              IF page.markupTips = 0 /\ page.d3 THEN 1 ELSE page.markupTips
       /\ e.op \in {"pointerMove", "circleEnter", "cellEnter"}
             => /\ tooltip'.show
                /\ tooltip'.chart = e.chart
                /\ tooltip' = ShownBy(e)
       /\ (e.op \in {"stepClick", "stepIntersect"}
              /\ Steps[e.n].story \in {"league", "scoring"}
              /\ Steps[e.n].season # 0 /\ ~uncaught')
             => /\ tooltip'.show
                /\ tooltip'.chart = Steps[e.n].story
                /\ tooltip'.by = "I1"
       /\ e.op \in {"pointerLeave", "circleLeave", "cellLeave"}
             => tooltip' = [tooltip EXCEPT !.show = FALSE]
       /\ (e.op = lastEvent.op /\ e.chart = lastEvent.chart
              /\ e.n = lastEvent.n)
             => tooltip' = tooltip

\* C21: every closure's tooltip is the first .tooltip element of the page,
\* and one is created only when the page has none, so all charts write to
\* one element; a show call leaves it visible with the content of that call
\* alone, a hide call hides it and leaves its content, and repeating the
\* call that ran last changes nothing.
TooltipLastWriteWins == [][TooltipStep]_vars

\* The heatmap shows the tooltip over what the scoring chart's focusSeason
\* had left there, in a page whose markup had no tooltip element.
TooltipWitness ==
    /\ page.markupTips = 0 /\ page.tooltips = 1
    /\ page.tipOf = [i \in Insts |-> 1]
    /\ lastEvent.op = "cellEnter"
    /\ attached["league"] = "I2"
    /\ mixFocus["I1"] # 0
    /\ tooltip.show /\ tooltip.chart = "heatmap"

----------------------------------------------------------------------------
(* The season controls of the scatter chart                                *)

\* The first and the last season of the scatter data.
FirstSeason == SetMin(ScatterSeasons(teamScatter))
LastSeason == SetMax(ScatterSeasons(teamScatter))

\* C24: one click on a season step button moves the selected season (the
\* slider's value, shown in #seasonLabel) by the button's direction value,
\* kept within the first and the last season of the data.
StepButtonMovesOneSeason ==
    [][lastEvent'.op = "sliderBtn"
          => LET next == Clamp(slider.value + lastEvent'.n,
                               FirstSeason, LastSeason)
             IN slider'.value = next /\ seasonLabel' = next]_vars

\* The same while only one closure has rendered the scatter chart.
SingleListenerMovesOneSeason ==
    [][(lastEvent'.op = "sliderBtn" /\ Len(sliderListeners) = 1)
          => LET next == Clamp(slider.value + lastEvent'.n,
                               FirstSeason, LastSeason)
             IN slider'.value = next /\ seasonLabel' = next]_vars

\* C25: while the scatter chart is drawn, #seasonLabel shows the season
\* whose teams are bound to the circles of the drawing in the page, that
\* season is the slider's value, and it lies between the first and the last
\* season of the data.
LabelSliderAndCirclesAgree ==
    LET i == attached["scatter"]
    IN (i \in Insts /\ result[i]["scatter"] = "rendered")
          => /\ seasonLabel = slider.value
             /\ seasonLabel \in FirstSeason .. LastSeason
             /\ \A c \in Range(Bound(layer[i])) : c.d.season = seasonLabel
             /\ {c.d.teamId : c \in Range(Bound(layer[i]))}
                    = TeamsOf(seasonLabel)

\* The same after a handler of the slider or of its buttons, which every
\* closure that drew the chart takes part in.
SliderEventsAgree ==
    lastEvent.op \in {"sliderInput", "sliderBtn"}
        => LabelSliderAndCirclesAgree

\* The same after setSeason with a season of the data's range while the
\* first closure's drawing is the one in the page.
SetSeasonInRangeAgrees ==
    (/\ lastEvent.op = "stepClick" /\ ~uncaught
     /\ Steps[lastEvent.n].season \in FirstSeason .. LastSeason
     /\ attached["scatter"] = "I1")
        => LabelSliderAndCirclesAgree

----------------------------------------------------------------------------
(* The metric filter of the league chart                                   *)

\* C26: the active metric of every league drawing is none or one of the
\* three metric keys; so while the legend is drawn at least one of its
\* buttons (and metric lines) is emphasised, and a league tooltip that is
\* shown has at least one metric row.
ActiveMetricIsNoneOrKey ==
    /\ \A i \in Insts : activeMetric[i] \in MetricKeys \cup {""}
    /\ legendOwner \in Insts => legendActive # {}
    /\ (tooltip.show /\ tooltip.chart = "league") => tooltip.rows # {}

\* The same in a page whose league steps name no metric or a metric key.
KnownMetricsStayKnown ==
    (\A k \in StepsIn(dom) : Steps[k].metric \in MetricKeys \cup {""})
        => ActiveMetricIsNoneOrKey

\* C30: a click on a legend button acts on the league drawing in the page:
\* when the button's metric is that drawing's active metric the filter is
\* cleared (all buttons active), otherwise the metric becomes the only
\* active one; so a second click on the same button clears what the first
\* one set.
LegendClickToggles ==
    [][lastEvent'.op = "legendClick"
          => LET i == legendOwner
                 key == MetricOrder[lastEvent'.n]
             IN /\ attached["league"] = i
                /\ activeMetric'[i] = IF activeMetric[i] = key THEN "" ELSE key
                /\ legendActive' =
                       IF activeMetric[i] = key THEN MetricKeys ELSE {key}
                /\ (lastEvent.op = "legendClick"
                       /\ lastEvent.n = lastEvent'.n
                       /\ lastEvent.chart = "league"
                       /\ activeMetric[i] = key)
                      => activeMetric'[i] = "" /\ legendActive' = MetricKeys]_vars

\* A click has cleared the filter of the second closure's drawing, which
\* only an earlier click can have set.
LegendToggleWitness ==
    /\ legendOwner = "I2"
    /\ lastEvent.op = "legendClick"
    /\ MetricOrder[lastEvent.n] = "avgPoints"
    /\ activeMetric["I2"] = ""
    /\ legendActive = MetricKeys

\* C28: in every state in which the pointer is over no chart the tooltip is
\* hidden.
TooltipOnlyUnderPointer ==
    page.pointer = "none" => ~tooltip.show

\* The same after the handlers of the pointer.
PointerLeaveHidesTooltip ==
    lastEvent.op \in {"pointerMove", "pointerLeave", "circleEnter",
                      "circleLeave", "cellEnter", "cellLeave"}
        => TooltipOnlyUnderPointer

----------------------------------------------------------------------------
(* focusSeason                                                             *)

\* The season focusSeason(season) is to focus in a non-empty dataset: the
\* given one when a record has it, else the latest.
SeasonToFocus(data, season) ==
    IF \E k \in DOMAIN data : data[k].season = season THEN season
    ELSE SetMax({data[k].season : k \in DOMAIN data})

\* C29: after a story step has called focusSeason(season) on the league,
\* scoring or spiral chart with a non-empty dataset, nothing was thrown and
\* the chart's drawing has a focused season: the given one when the dataset
\* has a record of it, otherwise the latest.
FocusSeasonFindsOrFallsBack ==
    LET step == Steps[lastEvent.n]
        focused ==
            CASE step.story = "league" -> focus["I1"]
              [] step.story = "scoring" -> mixFocus["I1"]
              [] OTHER ->
                   IF spiral.focus \in DOMAIN spiral.dots
                   THEN spiral.dots[spiral.focus].season ELSE 0
        data ==
            CASE step.story = "league" -> leagueTrends
              [] step.story = "scoring" -> scoringMix
              [] OTHER -> momentumSpiral
    IN (/\ lastEvent.op = "stepClick"
        /\ step.season # 0
        /\ step.story \in {"league", "scoring", "spiral"}
        /\ data # <<>>)
          => /\ ~uncaught
             /\ focused # 0
             /\ focused = SeasonToFocus(data, step.season)
             /\ step.story = "spiral" => spiral.label = focused

\* The spiral step names 2019 and the data has only other seasons, given
\* out of order: the latest one is focused.
FocusFallbackWitness ==
    /\ lastEvent.op = "stepClick"
    /\ Steps[lastEvent.n].story = "spiral"
    /\ Len(momentumSpiral) = 3
    /\ \A k \in DOMAIN momentumSpiral : momentumSpiral[k].season # 2019
    /\ momentumSpiral[1].season = 2022
    /\ spiral.label = 2022
    /\ focus["I1"] = 2022

----------------------------------------------------------------------------
(* The datasets                                                            *)

\* C22: no step of the program changes a dataset array it was given: every
\* array keeps its records, their order and their field values.
DatasetsKeepInput ==
    [][/\ leagueTrends' = leagueTrends
       /\ scoringMix' = scoringMix
       /\ teamScatter' = teamScatter
       /\ heatmapData' = heatmapData
       /\ momentumSpiral' = momentumSpiral]_vars

\* Both closures have drawn their charts from arrays given out of season
\* order, a story step has called the heatmap's highlight, and the arrays
\* are still in the order they were given in.
DatasetsWitness ==
    /\ \A i \in Insts : pc[i] = "booted"
    /\ lastEvent.op = "stepClick"
    /\ heat.hl.called
    /\ spiral.label # 0
    /\ leagueTrends = LeagueData
    /\ leagueTrends[1].season > leagueTrends[2].season
    /\ momentumSpiral[1].season > momentumSpiral[2].season
    /\ teamScatter = ScatterData

====
